---- MODULE Spec2Model ----
(***************************************************************************)
(* Model of final_project.py (Chebyshev spectral elements, matrix free).   *)
(*                                                                         *)
(* The notebook defines pure functions.  A behaviour of the model picks    *)
(* one of them (unit), draws its inputs, and applies it.                   *)
(*                                                                         *)
(* Arithmetic is exact: a real number is a reduced fraction <<num, den>>   *)
(* with den > 0, so floating-point rounding is outside the model.  The     *)
(* quadrature points of leggauss are irrational; the model draws them,     *)
(* and the weights, from a rational grid, subject to what numpy guarantees *)
(* (points symmetric about 0 and increasing, weights positive, symmetric   *)
(* and summing to 2).  Python indices 0..n-1 are 1..n here.                *)
(***************************************************************************)
EXTENDS Integers, Sequences, FiniteSets, TLC

\* Largest number of Chebyshev points passed to compute_one_dimensional_matrices.
MaxN == 4
\* Grid coordinates are the multiples of 1/(2*GridHalf) in (-1, 1).
GridHalf == 2
\* Unnormalised quadrature weights are drawn from 1..MaxW.
MaxW == 2

----------------------------------------------------------------------------
\* Exact rational arithmetic.

Abs(x) == IF x < 0 THEN -x ELSE x

Gcd[a \in Nat, b \in Nat] == IF b = 0 THEN a ELSE Gcd[b, a % b]

\* Op applied to the values of its arguments, each computed once.
Strict1(Op(_), a) == CHOOSE r \in {Op(x) : x \in {a}} : TRUE
Strict2(Op(_, _), a, b) == CHOOSE r \in {Op(x, y) : x \in {a}, y \in {b}} : TRUE
Strict3(Op(_, _, _), a, b, c) ==
    CHOOSE r \in {Op(x, y, z) : x \in {a}, y \in {b}, z \in {c}} : TRUE

RNormV(num, den) ==
    LET g == Gcd[Abs(num), Abs(den)]
        s == IF den < 0 THEN -1 ELSE 1
    IN  <<s * (num \div g), s * (den \div g)>>

\* The reduced fraction num/den, den # 0.
RNorm(num, den) == Strict2(RNormV, num, den)

RInt(k) == <<k, 1>>
RZero == RInt(0)
ROne == RInt(1)

RAddV(a, b) ==
    LET g == Gcd[a[2], b[2]]
    IN  RNorm(a[1] * (b[2] \div g) + b[1] * (a[2] \div g), (a[2] \div g) * b[2])

RAdd(a, b) == Strict2(RAddV, a, b)

RNegV(a) == <<-a[1], a[2]>>
RNeg(a) == Strict1(RNegV, a)
RSub(a, b) == RAdd(a, RNeg(b))

RMulV(a, b) ==
    LET g1 == Gcd[Abs(a[1]), b[2]]
        g2 == Gcd[Abs(b[1]), a[2]]
    IN  RNorm((a[1] \div g1) * (b[1] \div g2), (a[2] \div g2) * (b[2] \div g1))

RMul(a, b) == Strict2(RMulV, a, b)

RInvV(a) == RNorm(a[2], a[1])
RDiv(a, b) == RMul(a, Strict1(RInvV, b))

\* The sum and the product of the rationals f[k], k in 1..m, left to right.
RECURSIVE RSum(_, _)
RSum(f, m) == IF m = 0 THEN RZero ELSE RAdd(RSum(f, m - 1), f[m])

RECURSIVE RProd(_, _)
RProd(f, m) == IF m = 0 THEN ROne ELSE RMul(RProd(f, m - 1), f[m])

----------------------------------------------------------------------------
\* numpy and scipy calls made by the notebook.

RECURSIVE SortedSeq(_)
SortedSeq(S) ==
    IF S = {} THEN <<>>
    ELSE LET m == CHOOSE x \in S : \A y \in S : x <= y
         IN  <<m>> \o SortedSeq(S \ {m})

\* An array with its entries computed: the sequence f[1], ..., f[m].
Array(f) == <<>> \o f

Reverse(s) == [k \in 1..Len(s) |-> s[Len(s) + 1 - k]]

\* The positive grid positions, in units of 1/(2*GridHalf), strictly inside (0, 1).
GridPos == 1..(2 * GridHalf - 1)
GridPt(k) == RNorm(k, 2 * GridHalf)

\* The symmetric increasing point sequence made of the positive positions P,
\* their mirror images, and 0 when mid.
SymmetricPts(P, mid) ==
    LET srt == SortedSeq(P)
        pos == Array([k \in 1..Len(srt) |-> GridPt(srt[k])])
    IN  Reverse([k \in 1..Len(pos) |-> RNeg(pos[k])])
          \o (IF mid THEN <<RZero>> ELSE <<>>) \o pos

\* The k largest positive grid positions.
Outermost(k) == {p \in GridPos : p > 2 * GridHalf - 1 - k}

\* The Chebyshev points of type 2, sin(pi*k/(2*(npts-1))), k = -npts+1, -npts+3,
\* ..., npts-1.  They are rational up to npts = 4; above that the interior points
\* are irrational and the model takes the outermost grid positions for them.
ChebyshevPoints(npts) ==
    IF npts = 0 THEN <<>>
    ELSE IF npts = 1 THEN <<RZero>>
    ELSE IF npts = 2 THEN <<RInt(-1), ROne>>
    ELSE IF npts = 3 THEN <<RInt(-1), RZero, ROne>>
    ELSE IF npts = 4 THEN <<RInt(-1), RNorm(-1, 2), RNorm(1, 2), ROne>>
    ELSE <<RInt(-1)>> \o SymmetricPts(Outermost((npts - 2) \div 2), npts % 2 = 1) \o <<ROne>>

chebpts2NoCheck(npts) == [err |-> "none", pts |-> ChebyshevPoints(npts)]

\* np.polynomial.chebyshev.chebpts2(npts): raises ValueError("npts must be >= 2")
\* below 2.
chebpts2(npts) ==
    IF npts < 2 THEN [err |-> "ValueError", pts |-> <<>>]
    ELSE [err |-> "none", pts |-> ChebyshevPoints(npts)]

\* The symmetric weight sequence of length deg with half weights h (outermost
\* first) and middle weight m when deg is odd, scaled so that it sums to 2.
SymmetricWeights(deg, h, m) ==
    LET u == h \o (IF deg % 2 = 1 THEN <<m>> ELSE <<>>) \o Reverse(h)
        RECURSIVE Total(_)
        Total(k) == IF k = 0 THEN 0 ELSE Total(k - 1) + u[k]
        t == Total(deg)
    IN  Array([k \in 1..deg |-> RNorm(2 * u[k], t)])

\* np.polynomial.legendre.leggauss(deg): deg points in (-1, 1), symmetric about 0
\* and increasing, with positive symmetric weights that sum to 2; raises
\* ValueError("deg must be a positive integer") below 1.
leggauss(deg) ==
    IF deg < 1 THEN {[err |-> "ValueError", q |-> <<>>, w |-> <<>>]}
    ELSE {[err |-> "none", q |-> SymmetricPts(P, deg % 2 = 1), w |-> SymmetricWeights(deg, h, m)] :
             P \in {Q \in SUBSET GridPos : 2 * Cardinality(Q) + (deg % 2) = deg},
             h \in [1..(deg \div 2) -> 1..MaxW],
             m \in 1..MaxW}

\* scipy.interpolate.lagrange(x, wts) evaluated at t:
\* sum over j of wts[j] * prod over k # j of (t - x[k]) / (x[j] - x[k]).
lagrangeV(x, wts, t) ==
    LET M == Len(x)
        term(j) ==
            IF wts[j] = RZero THEN RZero   \* 0 * (a finite product)
            ELSE RMul(wts[j],
                      RProd([k \in 1..M |->
                               IF k = j THEN ROne
                               ELSE RDiv(RSub(t, x[k]), RSub(x[j], x[k]))], M))
    IN  RSum([j \in 1..M |-> term(j)], M)

lagrange(x, wts, t) == Strict3(lagrangeV, x, wts, t)

----------------------------------------------------------------------------
\* Assignment 1: one dimensional matrices.

get_e(n) == Array([i \in 1..n |-> Array([j \in 1..n |-> IF i = j THEN ROne ELSE RZero])])

\* The basis function v = lagrange(X, e[i]), as the pair it is built from.
get_basis(n, e, X, i) == [x |-> X, wts |-> e[i]]

\* v(t) for a basis function v.
Call(v, t) == lagrange(v.x, v.wts, t)

derivativeSignSlipV(v, x0) ==
    RMul(RNorm(1, 2), RAdd(Call(v, RAdd(x0, ROne)), Call(v, RSub(x0, ROne))))

derivativeSignSlip(v, x0) == Strict2(derivativeSignSlipV, v, x0)

derivativeV(v, x0) ==
    RMul(RNorm(1, 2), RSub(Call(v, RAdd(x0, ROne)), Call(v, RSub(x0, ROne))))

\* scipy.misc.derivative(func, x0) with its defaults dx=1.0, n=1, order=3: the
\* central difference (func(x0 + dx) - func(x0 - dx)) / (2 * dx).
derivative(v, x0) == Strict2(derivativeV, v, x0)

einsumNoWeightsV(P, w, Q) ==
    Array([i \in 1..Len(P) |-> Array([j \in 1..Len(Q) |->
        RSum([a \in 1..Len(w) |-> RMul(P[i][a], Q[j][a])], Len(w))])])

einsumNoWeights(P, w, Q) == Strict3(einsumNoWeightsV, P, w, Q)

einsumV(P, w, Q) ==
    Array([i \in 1..Len(P) |-> Array([j \in 1..Len(Q) |->
        RSum([a \in 1..Len(w) |-> RMul(RMul(P[i][a], w[a]), Q[j][a])], Len(w))])])

\* np.einsum('iq, q, jq', P, w, Q): out[i, j] = sum over q of P[i, q] * w[q] * Q[j, q].
einsum(P, w, Q) == Strict3(einsumV, P, w, Q)

MatAddV(P, Q) ==
    Array([i \in 1..Len(P) |-> Array([j \in 1..Len(P[i]) |-> RAdd(P[i][j], Q[i][j])])])

MatAdd(P, Q) == Strict2(MatAddV, P, Q)

BasisValues(n, e, X, q) ==
    Array([i \in 1..n |->
        Array([alpha \in 1..n |-> Call(get_basis(n, e, X, i), q[alpha])])])

BasisDerivatives(n, e, X, q) ==
    Array([i \in 1..n |->
        Array([alpha \in 1..n |-> derivative(get_basis(n, e, X, i), q[alpha])])])

StiffnessMixed(B, D, w) == einsum(D, w, B)

Stiffness(B, D, w) == einsum(D, w, D)

Mass(B, D, w) == einsum(B, w, B)

NoMatrices == [n |-> 0, X |-> <<>>, q |-> <<>>, w |-> <<>>, B |-> <<>>, D |-> <<>>,
               K |-> <<>>, M |-> <<>>, A |-> <<>>, outcome |-> "idle"]

Returns(n, X, q, w, B, D, K, M) ==
    [n |-> n, X |-> X, q |-> q, w |-> w, B |-> B, D |-> D,
     K |-> K, M |-> M, A |-> MatAdd(K, M), outcome |-> "returned"]

\* The results of compute_one_dimensional_matrices(n): the locals of the call and
\* its outcome ("returned" with K, M, A, or the exception raised).  B and D are
\* computed once for each pair of node and quadrature point sequences.
compute_one_dimensional_matrices(n) ==
    LET Raised(x) == [NoMatrices EXCEPT !.n = n, !.outcome = x]
        G == leggauss(n)
    IN  UNION {
          IF c.err # "none" THEN {Raised(c.err)}
          ELSE IF p.err # "none" THEN {Raised(p.err)}
          ELSE UNION {
            UNION {
              {Returns(n, c.pts, g.q, g.w, B, D, K, M) :
                  K \in {Stiffness(B, D, g.w)}, M \in {Mass(B, D, g.w)}}
              : g \in {h \in G : h.q = p.q}}
            : B \in {BasisValues(n, e, c.pts, p.q)},
              D \in {BasisDerivatives(n, e, c.pts, p.q)}}
          : e \in {get_e(n)}, c \in {chebpts2(n)},
            p \in {[err |-> h.err, q |-> h.q] : h \in G}}

----------------------------------------------------------------------------
\* Assignment 2: error in one dimension.

\* compute_error_one_d(n, exact, rhs): error = 1/n.
compute_error_one_d(n) == RNorm(1, n)

\* all_n = range(10, 20): first value and stop value.
SweepStart == 10
SweepStop == 20

range(start, stop) == start..(stop - 1)

all_n == range(SweepStart, SweepStop)

NoSweep == [n |-> 0, ns |-> <<>>, error |-> <<>>]

----------------------------------------------------------------------------
\* Assignment 4: conjugate gradient.  Arrays live in a heap and are named by
\* their index in it, so that a copy and an alias differ.

\* The symmetric positive definite matrices behind matvec.
Operators == {<<<<1, 0>>, <<0, 1>>>>, <<<<2, 1>>, <<1, 2>>>>}

\* Vectors have as many entries as the operators have rows, drawn from 0..MaxVal.
Dim == Len(CHOOSE A \in Operators : TRUE)
MaxVal == 1
\* Largest number of cg calls in one behaviour.
MaxCalls == 2

Vals == 0..MaxVal
Vectors == [1..Dim -> Vals]
Zero == [i \in 1..Dim |-> 0]

\* cg's default for maxiter.
maxiterDefault == 10000
Tols == {0, 1}
MaxIters == {0, 1, maxiterDefault}

Dot(x, y) == LET RECURSIVE S(_)
                 S(k) == IF k = 0 THEN 0 ELSE S(k - 1) + x[k] * y[k]
             IN  S(Len(x))

\* def matvec(src): return A.dot(src)
matvecDense(A, src) == [i \in 1..Len(A) |-> Dot(A[i], src)]

\* The squared norm of the residual b - matvec(x).
ResidualNormSq(A, b, x) ==
    LET r == [i \in 1..Len(b) |-> b[i] - matvecDense(A, x)[i]]
    IN  Dot(r, r)

cgNoCopy(heap, A, b, x0, tol, maxiter) ==
    [heap |-> heap, x |-> x0, outcome |-> "returned", iterations |-> 0]

\* cg(matvec, b, x0, tol, maxiter): x = x0.copy(); return x.  b and x0 are heap
\* references; the result is the heap after the call, the reference returned,
\* how the call ended and the number of iterations it made.
cg(heap, A, b, x0, tol, maxiter) ==
    [heap |-> Append(heap, heap[x0]), x |-> Len(heap) + 1,
     outcome |-> "returned", iterations |-> 0]

NoCall == [A |-> <<>>, b |-> <<>>, x0 |-> <<>>, tol |-> 0, maxiter |-> 0,
           x |-> <<>>, outcome |-> "idle", iterations |-> 0]

NoSolver == [heap |-> <<>>, b |-> 0, x0 |-> 0, sols |-> <<>>, given |-> <<>>,
             last |-> NoCall]

----------------------------------------------------------------------------
\* Assignment 5: matrix free evaluation in two dimensions (integer entries).

\* Points per direction of the two dimensional problem.
MatvecN == 2

SymmetricMatrices(n) ==
    {m \in [1..n -> [1..n -> 0..1]] : \A i \in 1..n, j \in 1..n : m[i][j] = m[j][i]}

\* The flattened coefficient arrays tried: one entry 1 and the others 0, or all 1.
CoefficientArrays(n) ==
    {[k \in 1..(n * n) |-> IF k = c THEN 1 ELSE 0] : c \in 1..(n * n)}
        \cup {[k \in 1..(n * n) |-> 1]}

\* vinput.reshape((n, n)) and u.reshape((n**2,)), row major.
reshape2(vinput, n) ==
    Array([i \in 1..n |-> Array([j \in 1..n |-> vinput[(i - 1) * n + j]])])
flatten2(u, n) ==
    Array([k \in 1..(n * n) |-> u[((k - 1) \div n) + 1][((k - 1) % n) + 1]])

dotV(P, Q) ==
    Array([i \in 1..Len(P) |-> Array([j \in 1..Len(Q[1]) |->
        LET RECURSIVE S(_)
            S(k) == IF k = 0 THEN 0 ELSE S(k - 1) + P[i][k] * Q[k][j]
        IN  S(Len(Q))])])

\* P.dot(Q) for two dimensional arrays: the matrix product.
dot(P, Q) == Strict2(dotV, P, Q)

IntMatAddV(P, Q) ==
    Array([i \in 1..Len(P) |-> Array([j \in 1..Len(P[i]) |-> P[i][j] + Q[i][j]])])

IntMatAdd(P, Q) == Strict2(IntMatAddV, P, Q)

matvecV(K, M, n, v) ==
    flatten2(IntMatAdd(IntMatAdd(dot(K, dot(M, v)), dot(M, dot(K, v))), dot(M, dot(M, v))), n)

\* def matvec(vinput): v = vinput.reshape((n,n)); Mv = M.dot(v); Kv = K.dot(v);
\* u = K.dot(Mv); u += M.dot(Kv); u += M.dot(Mv); return u.reshape((n**2,))
matvec(K, M, n, vinput) ==
    CHOOSE w \in {matvecV(K, M, n, v) : v \in {reshape2(vinput, n)}} : TRUE

NoMatvec == [n |-> 0, K |-> <<>>, M |-> <<>>, vinput |-> <<>>, out |-> <<>>]

----------------------------------------------------------------------------
VARIABLES
    unit,    \* the cell of the notebook this behaviour runs
    pc,      \* "call" before it runs, "loop" inside the sweep, "done" after
    mat,     \* compute_one_dimensional_matrices: its argument, locals and outcome
    sw,      \* the sweep over all_n: n, the values of n done, the list error
    solver,  \* cg: the heap, the caller's b, x0 and results, the last call
    mv       \* matvec: the globals n, K, M, the argument and the result

vars == <<unit, pc, mat, sw, solver, mv>>

InitMatrices ==
    /\ unit = "matrices"
    /\ pc = "call"
    /\ mat \in {[NoMatrices EXCEPT !.n = n] : n \in 0..MaxN}
    /\ sw = NoSweep /\ solver = NoSolver /\ mv = NoMatvec

InitSweep ==
    /\ unit = "sweep"
    /\ pc = "loop"
    /\ sw = [n |-> SweepStart, ns |-> <<>>, error |-> <<>>]
    /\ mat = NoMatrices /\ solver = NoSolver /\ mv = NoMatvec

InitCg ==
    /\ unit = "cg"
    /\ pc = "call"
    /\ \E b \in Vectors : \E x0 \in {Zero, b} :
          solver = [heap |-> <<b, x0>>, b |-> 1, x0 |-> 2, sols |-> <<>>,
                    given |-> <<b, x0>>, last |-> NoCall]
    /\ mat = NoMatrices /\ sw = NoSweep /\ mv = NoMatvec

InitMatvec ==
    /\ unit = "matvec"
    /\ pc = "call"
    /\ \E K \in SymmetricMatrices(MatvecN), M \in SymmetricMatrices(MatvecN),
          vinput \in CoefficientArrays(MatvecN) :
          mv = [n |-> MatvecN, K |-> K, M |-> M, vinput |-> vinput, out |-> <<>>]
    /\ mat = NoMatrices /\ sw = NoSweep /\ solver = NoSolver

Init == InitMatrices \/ InitSweep \/ InitCg \/ InitMatvec

\* K, M, A = compute_one_dimensional_matrices(n)
ComputeOneDimensionalMatrices ==
    /\ unit = "matrices"
    /\ pc = "call"
    /\ mat' \in compute_one_dimensional_matrices(mat.n)
    /\ pc' = "done"
    /\ UNCHANGED <<unit, sw, solver, mv>>

\* One pass of: for n in all_n: error.append(compute_error_one_d(n, ...))
SweepStep ==
    /\ unit = "sweep"
    /\ pc = "loop"
    /\ sw.n \in all_n
    /\ sw' = [n |-> sw.n + 1, ns |-> Append(sw.ns, sw.n),
              error |-> Append(sw.error, compute_error_one_d(sw.n))]
    /\ pc' = IF sw.n + 1 \in all_n THEN "loop" ELSE "done"
    /\ UNCHANGED <<unit, mat, solver, mv>>

\* x = cg(matvec, b, x0, tol, maxiter), the result kept by the caller.
CallCg ==
    /\ unit = "cg"
    /\ Len(solver.sols) < MaxCalls
    /\ \E A \in Operators, tol \in Tols, maxiter \in MaxIters :
          LET r == cg(solver.heap, A, solver.b, solver.x0, tol, maxiter)
          IN  solver' = [solver EXCEPT
                  !.heap = r.heap,
                  !.sols = Append(@, r.x),
                  !.last = [A |-> A, b |-> r.heap[solver.b], x0 |-> solver.heap[solver.x0],
                            tol |-> tol, maxiter |-> maxiter, x |-> r.heap[r.x],
                            outcome |-> r.outcome, iterations |-> r.iterations]]
    /\ pc' = "done"
    /\ UNCHANGED <<unit, mat, sw, mv>>

\* The caller writes into an array that cg returned: x[i] = val.
WriteSolution ==
    /\ unit = "cg"
    /\ \E k \in 1..Len(solver.sols), i \in 1..Dim, val \in Vals :
          /\ solver.heap[solver.sols[k]][i] # val
          /\ solver' = [solver EXCEPT !.heap[solver.sols[k]][i] = val]
    /\ UNCHANGED <<unit, pc, mat, sw, mv>>

\* w = matvec(vinput)
CallMatvec ==
    /\ unit = "matvec"
    /\ pc = "call"
    /\ mv' = [mv EXCEPT !.out = matvec(mv.K, mv.M, mv.n, mv.vinput)]
    /\ pc' = "done"
    /\ UNCHANGED <<unit, mat, sw, solver>>

Next ==
    \/ ComputeOneDimensionalMatrices
    \/ SweepStep
    \/ CallCg
    \/ WriteSolution
    \/ CallMatvec

Spec == Init /\ [][Next]_vars

----------------------------------------------------------------------------
\* Properties of compute_one_dimensional_matrices.

Returned == unit = "matrices" /\ pc = "done" /\ mat.outcome = "returned"

Idx == 1..mat.n

\* The i-th Lagrange basis polynomial on the nodes X at t, and its derivative,
\* from the product formula and the product rule.
BasisAt(X, i, t) ==
    RProd([k \in 1..Len(X) |->
             IF k = i THEN ROne ELSE RDiv(RSub(t, X[k]), RSub(X[i], X[k]))], Len(X))

BasisPrimeAt(X, i, t) ==
    RSum([m \in 1..Len(X) |->
            IF m = i THEN RZero
            ELSE RMul(RDiv(ROne, RSub(X[i], X[m])),
                      RProd([k \in 1..Len(X) |->
                               IF k = i \/ k = m THEN ROne
                               ELSE RDiv(RSub(t, X[k]), RSub(X[i], X[k]))], Len(X)))],
         Len(X))

\* sum over alpha (last first) of P[i, alpha] * Q[j, alpha] * w[alpha].
RECURSIVE WeightedDot(_, _, _, _, _, _)
WeightedDot(P, i, Q, j, w, a) ==
    IF a > Len(w) THEN RZero
    ELSE RAdd(RMul(w[a], RMul(Q[j][a], P[i][a])), WeightedDot(P, i, Q, j, w, a + 1))

IsSquare(P, n) == Len(P) = n /\ \A i \in 1..n : Len(P[i]) = n

C5_ExactBasisAndDerivative ==
    (Returned /\ mat.n >= 2)
        => \A i \in Idx, alpha \in Idx :
              /\ mat.B[i][alpha] = BasisAt(mat.X, i, mat.q[alpha])
              /\ mat.D[i][alpha] = BasisPrimeAt(mat.X, i, mat.q[alpha])

\* C6: the returned M and K are symmetric, and so is A = K + M.
C6_Symmetric ==
    Returned
        => \A i \in Idx, j \in Idx :
              /\ mat.M[i][j] = mat.M[j][i]
              /\ mat.K[i][j] = mat.K[j][i]
              /\ mat.A[i][j] = mat.A[j][i]

C6_Witness ==
    Returned /\ mat.n >= 3 /\ mat.K[1][2] # RZero /\ mat.K[1][2] # mat.K[1][3]

\* C7: every row of the returned K sums to 0 (K annihilates the constant vector).
C7_StiffnessAnnihilatesConstants ==
    Returned => \A i \in Idx : RSum(mat.K[i], mat.n) = RZero

C7_Witness ==
    Returned /\ mat.n >= 3 /\ \E i \in Idx, j \in Idx : mat.K[i][j][1] > 0 /\ i # j

\* C9: the quadrature has exactly n points, B and D are n x n, and
\* M[i,j] = sum_alpha B[i,alpha] B[j,alpha] w[alpha],
\* K[i,j] = sum_alpha D[i,alpha] D[j,alpha] w[alpha], A[i,j] = K[i,j] + M[i,j].
C9_MatricesFromQuadrature ==
    Returned
        => /\ Len(mat.q) = mat.n /\ Len(mat.w) = mat.n
           /\ IsSquare(mat.B, mat.n) /\ IsSquare(mat.D, mat.n)
           /\ IsSquare(mat.K, mat.n) /\ IsSquare(mat.M, mat.n) /\ IsSquare(mat.A, mat.n)
           /\ \A i \in Idx, j \in Idx :
                 /\ mat.M[i][j] = WeightedDot(mat.B, i, mat.B, j, mat.w, 1)
                 /\ mat.K[i][j] = WeightedDot(mat.D, i, mat.D, j, mat.w, 1)
                 /\ mat.A[i][j] = RAdd(mat.K[i][j], mat.M[i][j])

C9_Witness ==
    Returned /\ mat.n >= 3 /\ mat.M[1][2] # RZero /\ \E a \in Idx : mat.w[a] # ROne
----------------------------------------------------------------------------
\* Properties of the error sweep.

IsLess(a, b) == a[1] * b[2] < b[1] * a[2]

\* C8: the sweep evaluates every n from 10 up to and including 20, the error
\* decreases along it, faster than the algebraic rate 1/n (n * error(n) decreases
\* too), and it ends below 10^-9 (machine precision is about 2.2 * 10^-16).
C8_SweepToTwentyDecaysSpectrally ==
    (unit = "sweep" /\ pc = "done")
        => /\ {sw.ns[k] : k \in 1..Len(sw.ns)} = SweepStart..SweepStop
           /\ Len(sw.error) = Len(sw.ns)
           /\ \A k \in 1..(Len(sw.error) - 1) :
                 /\ IsLess(sw.error[k + 1], sw.error[k])
                 /\ IsLess(RMul(RInt(sw.ns[k + 1]), sw.error[k + 1]),
                           RMul(RInt(sw.ns[k]), sw.error[k]))
           /\ IsLess(sw.error[Len(sw.error)], RNorm(1, 10^9))

----------------------------------------------------------------------------
\* Properties of cg.

Last == solver.last
Called == unit = "cg" /\ Last.outcome # "idle"

\* C1: when cg returns normally from x0 = 0, the residual norm of the returned x,
\* ||b - matvec(x)||, is at or below tol.
C1_ReturnedIterateMeetsTolerance ==
    (Called /\ Last.outcome = "returned" /\ Last.x0 = Zero)
        => ResidualNormSq(Last.A, Last.b, Last.x) <= Last.tol * Last.tol

\* C3: when cg has made maxiter iterations and the residual norm is above tol, it
\* ends in NonConvergence, not in a normal return.
C3_IterationCapEndsInNonConvergence ==
    (/\ Called
     /\ Last.iterations >= Last.maxiter
     /\ ResidualNormSq(Last.A, Last.b, Last.x) > Last.tol * Last.tol)
        => Last.outcome = "NonConvergence"

\* C10: after any sequence of cg calls and of writes to their results, the
\* caller's b and x0 hold what they held at first, and every result is an array
\* of its own: not b, not x0, not another result.
C10_InputsKeptAndResultsOwned ==
    unit = "cg"
        => /\ solver.heap[solver.b] = solver.given[1]
           /\ solver.heap[solver.x0] = solver.given[2]
           /\ \A k \in 1..Len(solver.sols) :
                 /\ solver.sols[k] \notin {solver.b, solver.x0}
                 /\ \A l \in 1..Len(solver.sols) :
                       k # l => solver.sols[k] # solver.sols[l]

C10_Witness ==
    /\ unit = "cg"
    /\ Len(solver.sols) = 2
    /\ solver.heap[solver.sols[1]] # solver.heap[solver.x0]
    /\ solver.heap[solver.sols[2]] # solver.heap[solver.sols[1]]
    /\ solver.heap[solver.sols[2]] # solver.heap[solver.x0]

----------------------------------------------------------------------------
\* Properties of matvec.

\* The dense operator A[i,j,k,l] = K[i,k] M[j,l] + M[i,k] K[j,l] + M[i,k] M[j,l]
\* applied to v: w[i,j] = sum over k, l of A[i,j,k,l] * v[k,l].
DenseEntry(K, M, i, j, k, l) ==
    K[i][k] * M[j][l] + M[i][k] * K[j][l] + M[i][k] * M[j][l]

RECURSIVE SumPairs(_, _, _, _, _, _)
SumPairs(K, M, v, i, j, c) ==
    IF c = 0 THEN 0
    ELSE LET n == Len(K)
             k == ((c - 1) \div n) + 1
             l == ((c - 1) % n) + 1
         IN  SumPairs(K, M, v, i, j, c - 1) + DenseEntry(K, M, i, j, k, l) * v[k][l]

DenseApply(K, M, n, vinput) ==
    LET v == [i \in 1..n |-> [j \in 1..n |-> vinput[(i - 1) * n + j]]]
    IN  [c \in 1..(n * n) |->
            SumPairs(K, M, v, ((c - 1) \div n) + 1, ((c - 1) % n) + 1, n * n)]

\* C2: for d = 2 the matrix-free matvec equals the dense tensor operator applied
\* to v, for every symmetric K and M and every v.
C2_MatrixFreeEqualsDense ==
    (unit = "matvec" /\ pc = "done")
        => mv.out = DenseApply(mv.K, mv.M, mv.n, mv.vinput)
====
